---- MODULE Spec2Model ----
(***************************************************************************)
(* Model of blobmaker's materials/boundary tracking engine                 *)
(* (src/materials.py: Material, MaterialsTracker) together with the part   *)
(* of the CAD kernel (cubit) the tracker talks to: named groups, their     *)
(* members, and the merge status of surfaces.                              *)
(***************************************************************************)
EXTENDS Integers, Sequences, FiniteSets, TLC

(***************************************************************************)
(* Bounds of the model.                                                    *)
(***************************************************************************)
\* longest geometries list of a material in the tracking specification
MaxGeoms == 2
\* longest geometries list of a material in the list-update specification
MaxListGeoms == 3
\* most materials registered in the pair-enumeration specification
MaxPairMaterials == 5
\* longest geometries list of a material in the merge specification
MaxMergeGeoms == 2
\* most merge_and_track_boundaries calls in the merge specification
MaxRuns == 2
\* longest geometries list of a material in the boundary specification
MaxBoundaryGeoms == 1
\* most add_geometry_to_boundary calls by users in the boundary specification
MaxDirectAdds == 1
\* longest old_instances list passed to update_tracking_list
MaxOld == 2
\* longest new_instances list passed to update_tracking_list
MaxNew == 1

(***************************************************************************)
(* Values.                                                                 *)
(***************************************************************************)
\* GenericCubitInstance(cid, geometry_type): a (kind, id) value
GenericCubitInstance(cid, geometry_type) ==
    [geometry_type |-> geometry_type, cid |-> cid]

\* the entities the callers of the tracking specification pass in
Entities ==
    { GenericCubitInstance(1, "volume"),
      GenericCubitInstance(1, "surface"),
      GenericCubitInstance(2, "volume") }

\* the group ids a caller passes to make_material
GroupIds == {1, 2}

\* the material names the callers pass in
MaterialNames == {"a", "air"}

\* Material(name, group_id): a fresh record with no geometries
Material(name, group_id) ==
    [name |-> name, group_id |-> group_id, geometries |-> <<>>]

(***************************************************************************)
(* Sequence helpers (Python list operations).                              *)
(***************************************************************************)
Range(s) == { s[i] : i \in 1..Len(s) }

\* x in list
Contains(s, x) == \E i \in 1..Len(s) : s[i] = x

\* index of the first element equal to x, 0 when there is none
IndexOf(s, x) ==
    IF Contains(s, x) THEN CHOOSE i \in 1..Len(s) :
                              s[i] = x /\ \A j \in 1..(i-1) : s[j] # x
    ELSE 0

\* list.remove(x) on a list that holds x: drops the first element equal to x
ListRemove(s, x) ==
    LET k == IndexOf(s, x)
    IN  [i \in 1..(Len(s)-1) |-> IF i < k THEN s[i] ELSE s[i+1]]

\* all sequences over S of length at most n
SeqsUpTo(S, n) == UNION { [1..k -> S] : k \in 0..n }

(***************************************************************************)
(* State.                                                                  *)
(***************************************************************************)
VARIABLES
    materials,    \* MaterialsTracker.materials: list of Material records
    boundaries,   \* MaterialsTracker.boundaries: list of Material records
    groups,       \* kernel: groups by id (index): name, set of members, live
    merged,       \* kernel: ids of the surfaces with is_merged = 1
    raised,       \* exception the last call ended with ("" when it returned)
    ret,          \* list returned by the last get_boundary_ids call
    pc,           \* position inside merge_and_track_boundaries ("idle" outside)
    pair_list,    \* merge_and_track_boundaries: its local pair_list
    idx,          \* merge_and_track_boundaries: index of the running loop
    all_unmerged_surfaces, \* merge_and_track_boundaries: the queried ids
    unmerged_group_id,     \* merge_and_track_boundaries: id of the query group
    runs,         \* number of merge_and_track_boundaries calls started
    direct_adds,  \* number of add_geometry_to_boundary calls by users
    merge_log,    \* kernel: the merge commands and the unmerged-surface query
                  \* of the latest merge_and_track_boundaries call, in order
    sidesets,     \* kernel: the sidesets, each an id, a name and surfaces
    trackers,     \* the MaterialsTracker instances: the attributes each owns
    filler        \* the ParameterFiller: its fields and how its last call ended

vars == << materials, boundaries, groups, merged, raised, ret, pc, pair_list,
           idx, all_unmerged_surfaces, unmerged_group_id, runs, direct_adds,
           merge_log, sidesets, trackers, filler >>

\* the counters that bound the calls
counters == << runs, direct_adds >>

mergeLocals == << pc, pair_list, idx, all_unmerged_surfaces,
                  unmerged_group_id, counters, merge_log, sidesets, trackers,
                  filler >>

(***************************************************************************)
(* The kernel: groups.                                                     *)
(***************************************************************************)
\* cubit.get_id_from_name(name): id of the live group of that name, else 0
get_id_from_name(gs, name) ==
    IF \E i \in 1..Len(gs) : gs[i].live /\ gs[i].name = name
    THEN CHOOSE i \in 1..Len(gs) :
            /\ gs[i].live /\ gs[i].name = name
            /\ \A j \in 1..(i-1) : ~(gs[j].live /\ gs[j].name = name)
    ELSE 0

\* 'group "<name>" add <kind> <id>': creates the group when there is none;
\* a group holds an entity at most once
GroupAdd(gs, name, e) ==
    LET g == get_id_from_name(gs, name)
    IN  IF g = 0
        THEN Append(gs, [name |-> name, members |-> {e}, live |-> TRUE])
        ELSE [gs EXCEPT ![g].members = @ \cup {e}]

\* 'group <name> remove <kind> <id>': nothing when the entity is no member
GroupRemove(gs, name, e) ==
    LET g == get_id_from_name(gs, name)
    IN  IF g = 0 THEN gs
        ELSE [gs EXCEPT ![g].members = @ \ {e}]

\* a step of a tracking operation, applied to the groups: a kernel command
\* changes them, a change of the in-process list does not
ApplyCmd(gs, c) ==
    IF c.op = "add" THEN GroupAdd(gs, c.name, c.e)
    ELSE IF c.op = "remove" THEN GroupRemove(gs, c.name, c.e)
    ELSE gs

RECURSIVE ApplyCmds(_, _)
ApplyCmds(gs, cs) ==
    IF cs = <<>> THEN gs ELSE ApplyCmds(ApplyCmd(gs, Head(cs)), Tail(cs))

CmdAdd(name, e) == [op |-> "add", name |-> name, e |-> e]
CmdRemove(name, e) == [op |-> "remove", name |-> name, e |-> e]

\* the changes of a material's in-process list, kept in the same record of
\* steps as the kernel commands: geometries.append(e), geometries.remove(e)
ListAppend(name, e) == [op |-> "list_append", name |-> name, e |-> e]
ListRemoved(name, e) == [op |-> "list_remove", name |-> name, e |-> e]

(***************************************************************************)
(* Material.                                                               *)
(***************************************************************************)
\* isinstance(x, GenericCubitInstance): a value of another class carries its
\* class name
IsGenericCubitInstance(x) ==
    /\ DOMAIN x = {"geometry_type", "cid"}
    /\ x.geometry_type \in {"vertex", "curve", "surface", "volume", "body", "group"}

\* the value has the attributes geometry_type and cid (whatever its class)
HasEntityAttributes(x) == {"geometry_type", "cid"} \subseteq DOMAIN x

\* the values that are no GenericCubitInstance: an object of another class
\* with the attributes geometry_type and cid, and a string
NonEntities ==
    { [geometry_type |-> "volume", cid |-> 2, class |-> "object"],
      [class |-> "str"] }

\* Material.add_geometry: the material after the call and what it raised
add_geometry(material, geometry) ==
    IF IsGenericCubitInstance(geometry)
    THEN [material |-> [material EXCEPT !.geometries = Append(@, geometry)],
          raised |-> ""]
    ELSE [material |-> material, raised |-> "CubismError"]

\* the comparison the tracker uses: both kind and id
SameEntity(g, e) == (g.geometry_type = e.geometry_type) /\ (g.cid = e.cid)

(***************************************************************************)
(* MaterialsTracker: registration.                                         *)
(***************************************************************************)
MaterialNamesOf(ms) == [i \in 1..Len(ms) |-> ms[i].name]

\* make_material without its name check
MakeMaterialListUnchecked(ms, material_name, group_id) ==
    Append(ms, Material(material_name, group_id))

\* make_material's list after the call
MakeMaterialList(ms, material_name, group_id) ==
    IF ~Contains(MaterialNamesOf(ms), material_name)
    THEN Append(ms, Material(material_name, group_id))
    ELSE ms

\* a name (an object of a str subclass) whose == answers False for every
\* operand, itself included; 'in' still finds it in a list by identity, and
\* formatting it into a kernel command gives its text
UnequalName == "odd"

\* material.name == material_name
NameEquals(a, b) == a = b /\ a # UnequalName

\* index of the first material whose name == that name (the loops return at
\* the first), 0 when there is none
FirstNamed(ms, name) ==
    IF \E i \in 1..Len(ms) : NameEquals(ms[i].name, name)
    THEN CHOOSE i \in 1..Len(ms) :
            /\ NameEquals(ms[i].name, name)
            /\ \A j \in 1..(i-1) : ~NameEquals(ms[j].name, name)
    ELSE 0

make_material(material_name, group_id) ==
    /\ pc = "idle"
    /\ materials' = MakeMaterialList(materials, material_name, group_id)
    /\ raised' = ""
    /\ UNCHANGED << boundaries, groups, merged, ret, mergeLocals >>

\* the steps of add_geometry_to_material in order: the kernel command of
\* line 55, then the append of line 62 when add_geometry accepts the value
AddGeometrySteps(geometry, material_name) ==
    << CmdAdd(material_name,
              GenericCubitInstance(geometry.cid, geometry.geometry_type)) >>
    \o (IF IsGenericCubitInstance(geometry)
        THEN << ListAppend(material_name, geometry) >> ELSE <<>>)

\* add_geometry_to_material: kernel command, id lookup, make_material, append;
\* when the loop finds no material of the name, line 64 returns a CubismError
\* object to the caller and nothing is raised.
\* Formatting the command reads geometry.geometry_type and geometry.cid, which
\* raises AttributeError for a value without them; the kernel sees the kind
\* and the id only.
add_geometry_to_material(geometry, material_name) ==
    /\ pc = "idle"
    /\ IF ~HasEntityAttributes(geometry)
       THEN /\ raised' = "AttributeError"
            /\ UNCHANGED << materials, groups >>
       ELSE LET gs == ApplyCmds(groups,
                               AddGeometrySteps(geometry, material_name))
                group_id == get_id_from_name(gs, material_name)
                ms == MakeMaterialList(materials, material_name, group_id)
                k == FirstNamed(ms, material_name)
                r == add_geometry(ms[k], geometry)
            IN  /\ groups' = gs
                /\ materials' = IF k = 0 THEN ms
                                ELSE [ms EXCEPT ![k] = r.material]
                /\ raised' = IF k = 0 THEN "" ELSE r.raised
    /\ UNCHANGED << boundaries, merged, ret, mergeLocals >>

(***************************************************************************)
(* MaterialsTracker: update_tracking, update_tracking_list,                *)
(* stop_tracking_in_material.  Each loops over the geometries list while   *)
(* changing it: Python's list iterator keeps an index into the live list.  *)
(* A loop's outcome is the list it leaves, the steps it took in order (the *)
(* changes of the list and the kernel commands), and the exception that    *)
(* ended it ("" when it ran through).                                      *)
(***************************************************************************)
Outcome(g, cmds, exc) == [geometries |-> g, cmds |-> cmds, raised |-> exc]

\* update_tracking's loop without the kernel command that removes the old
\* entity
RECURSIVE UpdateTrackingLoopKeepingOld(_, _, _, _, _, _)
UpdateTrackingLoopKeepingOld(g, i, old_geometry, new_geometry, material_name, cmds) ==
    IF i > Len(g) THEN Outcome(g, cmds, "")
    ELSE IF SameEntity(g[i], old_geometry)
    THEN UpdateTrackingLoopKeepingOld(
            Append(ListRemove(g, g[i]),
                   GenericCubitInstance(new_geometry.cid,
                                        new_geometry.geometry_type)),
            i + 1, old_geometry, new_geometry, material_name,
            cmds \o << ListRemoved(material_name, old_geometry),
                       ListAppend(material_name, new_geometry),
                       CmdAdd(material_name, new_geometry) >>)
    ELSE UpdateTrackingLoopKeepingOld(g, i + 1, old_geometry, new_geometry,
                                      material_name, cmds)

\* update_tracking, lines 215-222, from list index i on
RECURSIVE UpdateTrackingLoop(_, _, _, _, _, _)
UpdateTrackingLoop(g, i, old_geometry, new_geometry, material_name, cmds) ==
    IF i > Len(g) THEN Outcome(g, cmds, "")
    ELSE IF SameEntity(g[i], old_geometry)
    THEN UpdateTrackingLoop(
            Append(ListRemove(g, g[i]),
                   GenericCubitInstance(new_geometry.cid,
                                        new_geometry.geometry_type)),
            i + 1, old_geometry, new_geometry, material_name,
            cmds \o << ListRemoved(material_name, old_geometry),
                       ListAppend(material_name, new_geometry),
                       CmdRemove(material_name, old_geometry),
                       CmdAdd(material_name, new_geometry) >>)
    ELSE UpdateTrackingLoop(g, i + 1, old_geometry, new_geometry,
                            material_name, cmds)

\* update_tracking_list, lines 237-241: the inner loop over old_instances for
\* one geometry; list.remove raises ValueError when the geometry is gone
RECURSIVE UpdateListInner(_, _, _, _, _, _)
UpdateListInner(g, geometry, old_instances, j, material_name, cmds) ==
    IF j > Len(old_instances) THEN Outcome(g, cmds, "")
    ELSE IF /\ IsGenericCubitInstance(old_instances[j])
            /\ SameEntity(geometry, old_instances[j])
    THEN IF Contains(g, geometry)
         THEN UpdateListInner(ListRemove(g, geometry), geometry,
                 old_instances, j + 1, material_name,
                 cmds \o << ListRemoved(material_name, old_instances[j]),
                            CmdRemove(material_name, old_instances[j]) >>)
         ELSE Outcome(g, cmds, "ValueError")
    ELSE UpdateListInner(g, geometry, old_instances, j + 1, material_name,
                         cmds)

\* update_tracking_list, lines 236-241: the loop over the geometries
RECURSIVE UpdateListRemoveLoop(_, _, _, _, _)
UpdateListRemoveLoop(g, i, old_instances, material_name, cmds) ==
    IF i > Len(g) THEN Outcome(g, cmds, "")
    ELSE LET r == UpdateListInner(g, g[i], old_instances, 1, material_name,
                                  cmds)
         IN  IF r.raised # "" THEN r
             ELSE UpdateListRemoveLoop(r.geometries, i + 1, old_instances,
                                       material_name, r.cmds)

\* update_tracking_list, lines 242-245: the loop over new_instances
RECURSIVE UpdateListAddLoop(_, _, _, _, _)
UpdateListAddLoop(g, new_instances, j, material_name, cmds) ==
    IF j > Len(new_instances) THEN Outcome(g, cmds, "")
    ELSE IF IsGenericCubitInstance(new_instances[j])
    THEN UpdateListAddLoop(Append(g, new_instances[j]), new_instances, j + 1,
            material_name,
            cmds \o << ListAppend(material_name, new_instances[j]),
                       CmdAdd(material_name, new_instances[j]) >>)
    ELSE UpdateListAddLoop(g, new_instances, j + 1, material_name, cmds)

\* update_tracking_list on one material's list
UpdateListBody(g, old_instances, new_instances, material_name) ==
    LET r == UpdateListRemoveLoop(g, 1, old_instances, material_name, <<>>)
    IN  IF r.raised # "" THEN r
        ELSE UpdateListAddLoop(r.geometries, new_instances, 1, material_name,
                               r.cmds)

\* stop_tracking_in_material, lines 257-260, from list index i on
RECURSIVE StopTrackingLoop(_, _, _, _, _)
StopTrackingLoop(g, i, generic_cubit_instance, material_name, cmds) ==
    IF i > Len(g) THEN Outcome(g, cmds, "")
    ELSE IF SameEntity(g[i], generic_cubit_instance)
    THEN StopTrackingLoop(ListRemove(g, g[i]), i + 1, generic_cubit_instance,
            material_name,
            cmds \o << ListRemoved(material_name, generic_cubit_instance),
                       CmdRemove(material_name, generic_cubit_instance) >>)
    ELSE StopTrackingLoop(g, i + 1, generic_cubit_instance, material_name,
                          cmds)

\* the three calls as values
CallUpdate(old_geometry, new_geometry, material_name) ==
    [op |-> "update_tracking", olds |-> <<old_geometry>>,
     news |-> <<new_geometry>>, name |-> material_name]
CallUpdateList(old_instances, new_instances, material_name) ==
    [op |-> "update_tracking_list", olds |-> old_instances,
     news |-> new_instances, name |-> material_name]
CallStop(generic_cubit_instance, material_name) ==
    [op |-> "stop_tracking_in_material", olds |-> <<generic_cubit_instance>>,
     news |-> <<>>, name |-> material_name]

\* the body a call runs on the geometries of a material of its name
TrackBody(call, g) ==
    IF call.op = "update_tracking"
    THEN UpdateTrackingLoop(g, 1, call.olds[1], call.news[1], call.name, <<>>)
    ELSE IF call.op = "update_tracking_list"
    THEN UpdateListBody(g, call.olds, call.news, call.name)
    ELSE StopTrackingLoop(g, 1, call.olds[1], call.name, <<>>)

\* the loop of ForNamedMaterials deleting a record that is left without
\* geometries
RECURSIVE ForNamedMaterialsDroppingEmpty(_, _, _, _)
ForNamedMaterialsDroppingEmpty(ms, k, call, cmds) ==
    IF k > Len(ms) THEN [materials |-> ms, cmds |-> cmds, raised |-> ""]
    ELSE IF ms[k].name = call.name
    THEN LET r == TrackBody(call, ms[k].geometries)
             ms2 == [ms EXCEPT ![k].geometries = r.geometries]
             dropped == SubSeq(ms, 1, k - 1) \o SubSeq(ms, k + 1, Len(ms))
         IN  IF r.raised # ""
             THEN [materials |-> ms2, cmds |-> cmds \o r.cmds,
                   raised |-> r.raised]
             ELSE IF r.geometries = <<>>
             THEN ForNamedMaterialsDroppingEmpty(dropped, k, call,
                                                 cmds \o r.cmds)
             ELSE ForNamedMaterialsDroppingEmpty(ms2, k + 1, call,
                                                 cmds \o r.cmds)
    ELSE ForNamedMaterialsDroppingEmpty(ms, k + 1, call, cmds)

\* 'for material in self.materials: if material.name == material_name: ...'
\* from material index k on; an exception ends the whole call
RECURSIVE ForNamedMaterials(_, _, _, _)
ForNamedMaterials(ms, k, call, cmds) ==
    IF k > Len(ms) THEN [materials |-> ms, cmds |-> cmds, raised |-> ""]
    ELSE IF ms[k].name = call.name
    THEN LET r == TrackBody(call, ms[k].geometries)
             ms2 == [ms EXCEPT ![k].geometries = r.geometries]
         IN  IF r.raised # ""
             THEN [materials |-> ms2, cmds |-> cmds \o r.cmds,
                   raised |-> r.raised]
             ELSE ForNamedMaterials(ms2, k + 1, call, cmds \o r.cmds)
    ELSE ForNamedMaterials(ms, k + 1, call, cmds)

\* the whole call: the tracker's lists, the kernel's groups, the exception
TrackCall(call) ==
    /\ pc = "idle"
    /\ LET r == ForNamedMaterials(materials, 1, call, <<>>)
       IN  /\ materials' = r.materials
           /\ groups' = ApplyCmds(groups, r.cmds)
           /\ raised' = r.raised
    /\ UNCHANGED << boundaries, merged, ret, mergeLocals >>

update_tracking(old_geometry, new_geometry, material_name) ==
    TrackCall(CallUpdate(old_geometry, new_geometry, material_name))

update_tracking_list(old_instances, new_instances, material_name) ==
    TrackCall(CallUpdateList(old_instances, new_instances, material_name))

stop_tracking_in_material(generic_cubit_instance, material_name) ==
    TrackCall(CallStop(generic_cubit_instance, material_name))

(***************************************************************************)
(* MaterialsTracker: sort_materials_into_pairs.  A pair holds references   *)
(* to two Material objects; records are never removed or reordered, so a   *)
(* reference is the record's position in materials.                        *)
(***************************************************************************)
\* the loops of lines 85-89 with 'j >= min_counter' for 'j > min_counter'
RECURSIVE SortPairsLoopInclusive(_, _, _, _, _)
SortPairsLoopInclusive(n, i, j, min_counter, pairs) ==
    IF i >= n THEN pairs
    ELSE IF j >= n
    THEN SortPairsLoopInclusive(n, i + 1, 0, min_counter + 1, pairs)
    ELSE SortPairsLoopInclusive(n, i, j + 1, min_counter,
            IF j >= min_counter THEN Append(pairs, << i + 1, j + 1 >>)
            ELSE pairs)

\* the loops of lines 85-89: i and j run over range(len(materials)) (from 0),
\* min_counter grows by one per outer round
RECURSIVE SortPairsLoop(_, _, _, _, _)
SortPairsLoop(n, i, j, min_counter, pairs) ==
    IF i >= n THEN pairs
    ELSE IF j >= n THEN SortPairsLoop(n, i + 1, 0, min_counter + 1, pairs)
    ELSE SortPairsLoop(n, i, j + 1, min_counter,
            IF j > min_counter THEN Append(pairs, << i + 1, j + 1 >>)
            ELSE pairs)

\* the returned pair_list
SortMaterialsIntoPairs(ms) == SortPairsLoop(Len(ms), 0, 0, 0, <<>>)

\* a call of sort_materials_into_pairs whose result the caller keeps
sort_materials_into_pairs ==
    /\ pc = "idle"
    /\ pair_list' = SortMaterialsIntoPairs(materials)
    /\ raised' = ""
    /\ UNCHANGED << materials, boundaries, groups, merged, ret, pc, idx,
                    all_unmerged_surfaces, unmerged_group_id, counters,
                    merge_log, sidesets, trackers, filler >>

(***************************************************************************)
(* The kernel: topology and merging.  Volume 1 has the surfaces 1, 2, 3,   *)
(* volume 2 the surfaces 3, 4, and body 3 holds volume 3 with the surfaces *)
(* 1, 2, 5: a surface two volumes share is where they touch.  A merge of   *)
(* two groups merges the touching, still unmerged surfaces between a       *)
(* volume of the one and another volume of the other.                      *)
(***************************************************************************)
\* the entities the callers of the merge specification register
MergeEntities ==
    { GenericCubitInstance(1, "volume"),
      GenericCubitInstance(2, "volume"),
      GenericCubitInstance(3, "body"),
      GenericCubitInstance(4, "surface") }

\* every surface id of the kernel session
AllSurfaces == {1, 2, 3, 4, 5}

SurfacesOfVolume(v) ==
    IF v = 1 THEN {1, 2, 3} ELSE IF v = 2 THEN {3, 4} ELSE {1, 2, 5}

\* from_bodies_to_volumes on one entity: the volume ids under it
VolumesOf(e) ==
    IF e.geometry_type = "volume" THEN {e.cid}
    ELSE IF e.geometry_type = "body" THEN {e.cid}
    ELSE {}

\* the surface ids under one entity
SurfacesOf(e) ==
    IF e.geometry_type = "surface" THEN {e.cid}
    ELSE UNION { SurfacesOfVolume(v) : v \in VolumesOf(e) }

\* a finite set of numbers as the ascending list the kernel reports
RECURSIVE Ascending(_)
Ascending(S) ==
    IF S = {} THEN <<>>
    ELSE LET lo == CHOOSE x \in S : \A y \in S : x <= y
         IN  << lo >> \o Ascending(S \ {lo})

\* from_bodies_and_volumes_to_surfaces(geometries) as ids: the surfaces under
\* the entities in list order, each once
RECURSIVE SurfaceIdsUnder(_, _)
SurfaceIdsUnder(geometries, seen) ==
    IF geometries = <<>> THEN <<>>
    ELSE LET new == SurfacesOf(Head(geometries)) \ seen
         IN  Ascending(new) \o SurfaceIdsUnder(Tail(geometries), seen \cup new)

\* Material.get_surface_ids()
get_surface_ids(material) == SurfaceIdsUnder(material.geometries, {})

\* members of the group with that id (none for no group or a deleted one)
MembersOfId(gs, id) ==
    IF id \in 1..Len(gs) /\ gs[id].live THEN gs[id].members ELSE {}

\* cubit.get_group_surfaces(id): ids of the member surfaces, ascending
get_group_surfaces(gs, id) ==
    Ascending({ e.cid : e \in { x \in MembersOfId(gs, id) :
                                   x.geometry_type = "surface" } })

\* the surfaces 'merge group g1 with group g2' merges
MergeCandidates(gs, mrg, g1, g2) ==
    { sf \in AllSurfaces \ mrg :
        \E e1 \in MembersOfId(gs, g1), e2 \in MembersOfId(gs, g2) :
           \E v1 \in VolumesOf(e1), v2 \in VolumesOf(e2) :
              v1 # v2 /\ sf \in SurfacesOfVolume(v1) \cap SurfacesOfVolume(v2) }

\* the kernel after merging the surfaces S with group_results: a new group
\* holding them when there are any
MergeGroups(gs, S) ==
    IF S = {} THEN gs
    ELSE Append(gs, [name |-> "", live |-> TRUE,
                     members |-> { GenericCubitInstance(sf, "surface") : sf \in S }])

\* cubit_cmd_check(cmd, "group"): the id of the group the command created,
\* False (0) when it created none
cubit_cmd_check(before, after) ==
    IF Len(after) > Len(before) THEN Len(after) ELSE 0

\* 'group <id> rename "<name>"'
GroupRename(gs, id, name) == [gs EXCEPT ![id].name = name]

\* 'create group "<name>"'
GroupCreate(gs, name) ==
    Append(gs, [name |-> name, live |-> TRUE, members |-> {}])

\* 'delete group <id>'
GroupDelete(gs, id) ==
    IF id \in 1..Len(gs) THEN [gs EXCEPT ![id].live = FALSE] ELSE gs

\* 'group "unmerged_surfaces" add surface with is_merged=0'
RECURSIVE GroupAddAll(_, _, _)
GroupAddAll(gs, name, ids) ==
    IF ids = <<>> THEN gs
    ELSE GroupAddAll(GroupAdd(gs, name, GenericCubitInstance(Head(ids), "surface")),
                     name, Tail(ids))

(***************************************************************************)
(* MaterialsTracker: boundaries.                                           *)
(***************************************************************************)
\* index of the first boundary of that name, 0 when there is none
FirstBoundary(bs, name) == IndexOf(MaterialNamesOf(bs), name)

\* get_boundary_ids: the cids of the first boundary of that name
GetBoundaryIds(bs, name) ==
    LET k == FirstBoundary(bs, name)
    IN  IF k = 0 THEN [raised |-> "CubismError", ids |-> <<>>]
        ELSE [raised |-> "",
              ids |-> [i \in 1..Len(bs[k].geometries) |-> bs[k].geometries[i].cid]]

\* add_geometry_to_boundary creating the boundary it does not find
AddGeometryToBoundaryCreating(bs, geometry, boundary_name) ==
    LET k == FirstBoundary(bs, boundary_name)
    IN  IF k = 0
        THEN Append(bs, [Material(boundary_name, 0)
                            EXCEPT !.geometries = << geometry >>])
        ELSE [bs EXCEPT ![k].geometries = Append(@, geometry)]

\* add_geometry_to_boundary's list after the call (unchanged when it raises)
AddGeometryToBoundary(bs, geometry, boundary_name) ==
    LET k == FirstBoundary(bs, boundary_name)
    IN  IF k = 0 THEN bs
        ELSE [bs EXCEPT ![k].geometries = Append(@, geometry)]

\* the loop of __track_as_boundary over the reported surface ids
RECURSIVE TrackSurfaces(_, _, _)
TrackSurfaces(bs, ids, group_name) ==
    IF ids = <<>> THEN bs
    ELSE TrackSurfaces(
            AddGeometryToBoundary(bs, GenericCubitInstance(Head(ids), "surface"),
                                  group_name),
            Tail(ids), group_name)

\* __track_as_boundary
TrackAsBoundary(bs, gs, group_name, group_id) ==
    TrackSurfaces(Append(bs, Material(group_name, group_id)),
                  get_group_surfaces(gs, group_id), group_name)

\* the name __merge_and_track_between gives the merged group
BoundaryName(material1, material2) == material1.name \o "_" \o material2.name

\* __merge_and_track_between without the test of the returned group id
MergeAndTrackAlways(material1, material2, S) ==
    LET gs1 == MergeGroups(groups, S)
        group_id == cubit_cmd_check(groups, gs1)
        group_name == BoundaryName(material1, material2)
    IN  /\ merged' = merged \cup S
        /\ groups' = gs1
        /\ boundaries' = TrackAsBoundary(boundaries, gs1, group_name, group_id)

\* __merge_and_track_between, the kernel merging the surfaces S
MergeAndTrackBetween(material1, material2, S) ==
    LET gs1 == MergeGroups(groups, S)
        group_id == cubit_cmd_check(groups, gs1)
        group_name == BoundaryName(material1, material2)
    IN  /\ merged' = merged \cup S
        /\ IF group_id # 0
           THEN LET gs2 == GroupRename(gs1, group_id, group_name)
                IN  /\ groups' = gs2
                    /\ boundaries' =
                          TrackAsBoundary(boundaries, gs2, group_name, group_id)
           ELSE /\ groups' = gs1
                /\ boundaries' = boundaries

(***************************************************************************)
(* MaterialsTracker: merge_and_track_boundaries, one step per kernel merge *)
(* attempt, then the query of the unmerged surfaces, one step per material *)
(* of the ambient pass, and the deletion of the query group.  No other     *)
(* operation runs before the call has returned (pc = "idle").              *)
(***************************************************************************)
\* where the call stands once the self-merge loop has reached index i
AfterSelf(i, nm, np) ==
    IF i <= nm THEN << "self", i >>
    ELSE IF np >= 1 THEN << "pair", 1 >> ELSE << "query", 0 >>

\* the pair loop handing over to the self-merge loop
AfterPairBackToSelf(k, np) ==
    IF k <= np THEN << "pair", k >> ELSE << "self", 1 >>

\* the pair loop leaving after its first round
AfterPairOnce(k, np) ==
    IF k <= 1 /\ k <= np THEN << "pair", k >> ELSE << "query", 0 >>

\* where the call stands once the pair loop has reached index k
AfterPair(k, np) ==
    IF k <= np THEN << "pair", k >> ELSE << "query", 0 >>

\* where the call stands once the ambient loop has reached index i
AfterAir(i, nm) ==
    IF i <= nm THEN << "air", i >> ELSE << "finish", 0 >>

\* the kernel commands of the call that the log keeps: 'merge group .. with
\* group ..' for the materials at two positions, and the unmerged query
MergeCommand(i, j) == << "merge", i, j >>
QueryCommand == << "query", 0, 0 >>

\* line 125: the call starts by enumerating the pairs
merge_and_track_boundaries ==
    /\ pc = "idle"
    /\ runs < MaxRuns
    /\ runs' = runs + 1
    /\ UNCHANGED direct_adds
    /\ UNCHANGED << sidesets, trackers, filler >>
    /\ merge_log' = <<>>
    /\ pair_list' = SortMaterialsIntoPairs(materials)
    /\ LET pos == AfterSelf(1, Len(materials), Len(pair_list'))
       IN  pc' = pos[1] /\ idx' = pos[2]
    /\ raised' = ""
    /\ UNCHANGED << materials, boundaries, groups, merged, ret,
                    all_unmerged_surfaces, unmerged_group_id >>

\* lines 127-128: one round of the intra-group loop
SelfMergeStep ==
    /\ pc = "self"
    /\ LET material == materials[idx]
       IN  MergeAndTrackBetween(material, material,
              MergeCandidates(groups, merged, material.group_id,
                              material.group_id))
    /\ UNCHANGED << sidesets, trackers, filler >>
    /\ merge_log' = Append(merge_log, MergeCommand(idx, idx))
    /\ LET pos == AfterSelf(idx + 1, Len(materials), Len(pair_list))
       IN  pc' = pos[1] /\ idx' = pos[2]
    /\ UNCHANGED << materials, raised, ret, pair_list, all_unmerged_surfaces,
                    unmerged_group_id, counters >>

\* lines 131-132: one round of the loop over pair_list
PairMergeStep ==
    /\ pc = "pair"
    /\ LET material1 == materials[pair_list[idx][1]]
           material2 == materials[pair_list[idx][2]]
       IN  MergeAndTrackBetween(material1, material2,
              MergeCandidates(groups, merged, material1.group_id,
                              material2.group_id))
    /\ UNCHANGED << sidesets, trackers, filler >>
    /\ merge_log' = Append(merge_log,
                           MergeCommand(pair_list[idx][1], pair_list[idx][2]))
    /\ LET pos == AfterPair(idx + 1, Len(pair_list))
       IN  pc' = pos[1] /\ idx' = pos[2]
    /\ UNCHANGED << materials, raised, ret, pair_list, all_unmerged_surfaces,
                    unmerged_group_id, counters >>

\* lines 137-139: collect the unmerged surfaces in a group and read it back
QueryUnmergedStep ==
    /\ pc = "query"
    /\ LET gs1 == GroupAddAll(groups, "unmerged_surfaces",
                              Ascending(AllSurfaces \ merged))
           id == get_id_from_name(gs1, "unmerged_surfaces")
       IN  /\ groups' = gs1
           /\ unmerged_group_id' = id
           /\ all_unmerged_surfaces' = get_group_surfaces(gs1, id)
    /\ UNCHANGED << sidesets, trackers, filler >>
    /\ merge_log' = Append(merge_log, QueryCommand)
    /\ LET pos == AfterAir(1, Len(materials))
       IN  pc' = pos[1] /\ idx' = pos[2]
    /\ UNCHANGED << materials, boundaries, merged, raised, ret, pair_list, counters >>

\* lines 149-152: the loop over the material's surface ids; st holds the
\* boundaries and the groups
RECURSIVE AirSurfaces(_, _, _, _)
AirSurfaces(st, ids, unmerged, boundary_name) ==
    IF ids = <<>> THEN st
    ELSE IF Contains(unmerged, Head(ids))
    THEN LET sf == GenericCubitInstance(Head(ids), "surface")
         IN  AirSurfaces(
                [boundaries |-> AddGeometryToBoundary(st.boundaries, sf,
                                                      boundary_name),
                 groups |-> GroupAdd(st.groups, boundary_name, sf)],
                Tail(ids), unmerged, boundary_name)
    ELSE AirSurfaces(st, Tail(ids), unmerged, boundary_name)

\* lines 141-152: one round of the ambient loop
AirStep ==
    /\ pc = "air"
    /\ LET material == materials[idx]
           boundary_name == material.name \o "_air"
           gs1 == GroupCreate(groups, boundary_name)
           boundary_id == cubit_cmd_check(groups, gs1)
           bs1 == Append(boundaries, Material(boundary_name, boundary_id))
           st == AirSurfaces([boundaries |-> bs1, groups |-> gs1],
                             get_surface_ids(material), all_unmerged_surfaces,
                             boundary_name)
       IN  /\ boundaries' = st.boundaries
           /\ groups' = st.groups
    /\ LET pos == AfterAir(idx + 1, Len(materials))
       IN  pc' = pos[1] /\ idx' = pos[2]
    /\ UNCHANGED << materials, merged, raised, ret, pair_list,
                    all_unmerged_surfaces, unmerged_group_id, counters,
                    merge_log, sidesets, trackers, filler >>

\* line 154: delete the query group and return
FinishMerge ==
    /\ pc = "finish"
    /\ groups' = GroupDelete(groups, unmerged_group_id)
    /\ pc' = "idle"
    /\ idx' = 0
    /\ UNCHANGED << materials, boundaries, merged, raised, ret, pair_list,
                    all_unmerged_surfaces, unmerged_group_id, counters,
                    merge_log, sidesets, trackers, filler >>

\* add_geometry_to_boundary called by a user of the tracker
add_geometry_to_boundary(geometry, boundary_name) ==
    /\ pc = "idle"
    /\ boundaries' = AddGeometryToBoundary(boundaries, geometry, boundary_name)
    /\ raised' = IF FirstBoundary(boundaries, boundary_name) = 0
                 THEN "CubismError" ELSE ""
    /\ direct_adds' = direct_adds + 1
    /\ UNCHANGED << materials, groups, merged, ret, pc, pair_list, idx,
                    all_unmerged_surfaces, unmerged_group_id, runs,
                    merge_log, sidesets, trackers, filler >>

\* get_boundary_ids called by a user of the tracker
get_boundary_ids(boundary_name) ==
    /\ pc = "idle"
    /\ ret' = GetBoundaryIds(boundaries, boundary_name).ids
    /\ raised' = GetBoundaryIds(boundaries, boundary_name).raised
    /\ UNCHANGED << materials, boundaries, groups, merged, mergeLocals >>

(***************************************************************************)
(* Views of the state used by the properties.                              *)
(***************************************************************************)
\* members of the live kernel group of that name (none when there is none)
KernelMembers(gs, name) ==
    IF get_id_from_name(gs, name) = 0 THEN {}
    ELSE gs[get_id_from_name(gs, name)].members

\* the geometries of the material of that name (empty when there is none)
GeometriesOf(ms, name) ==
    IF FirstNamed(ms, name) = 0 THEN <<>>
    ELSE ms[FirstNamed(ms, name)].geometries

\* how often x occurs in a list
Count(s, x) == Cardinality({ i \in 1..Len(s) : s[i] = x })

(***************************************************************************)
(* Specification of the tracking operations.                               *)
(***************************************************************************)
\* JSON values as Python holds them: a type and a value; a dict is the
\* sequence of its << key, value >> items in insertion order
Str(s) == [type |-> "str", value |-> s]
Integer(n) == [type |-> "int", value |-> n]
Dict(items) == [type |-> "dict", value |-> items]
False == [type |-> "bool", value |-> "False"]
None == [type |-> "NoneType", value |-> "None"]

\* parsing.py lines 41-44: the fields of a new ParameterFiller; arg,
\* returned and raised tell how its last process_design_tree call went
NewParameterFiller ==
    [log |-> << >>, design_tree |-> << >>, config |-> Dict(<< >>),
     arg |-> << >>, returned |-> None, raised |-> ""]

\* the __dict__ of an instance nothing was assigned to
NoAttributes == [name \in {} |-> << >>]

Init ==
    /\ materials = <<>>
    /\ boundaries = <<>>
    /\ groups = <<>>
    /\ merged = {}
    /\ raised = ""
    /\ ret = <<>>
    /\ pc = "idle"
    /\ pair_list = <<>>
    /\ idx = 0
    /\ all_unmerged_surfaces = <<>>
    /\ unmerged_group_id = 0
    /\ runs = 0
    /\ direct_adds = 0
    /\ merge_log = <<>>
    /\ sidesets = {}
    /\ trackers = << NoAttributes >>
    /\ filler = NewParameterFiller

\* room for one more geometry in the material of that name
HasRoom(name, n, max) ==
    \A i \in 1..Len(materials) :
        materials[i].name = name => Len(materials[i].geometries) + n <= max

Next ==
    \/ \E n \in MaterialNames, g \in GroupIds : make_material(n, g)
    \/ \E e \in Entities, n \in MaterialNames :
          HasRoom(n, 1, MaxGeoms) /\ add_geometry_to_material(e, n)
    \/ \E old \in Entities, new \in Entities, n \in MaterialNames :
          update_tracking(old, new, n)
    \/ \E e \in Entities, n \in MaterialNames :
          stop_tracking_in_material(e, n)

Spec == Init /\ [][Next]_vars

(***************************************************************************)
(* Specification of update_tracking_list: one material is registered, each *)
(* entity at most once, and its tracked entities are replaced by lists.    *)
(***************************************************************************)
ListMaterial == "a"

NextList ==
    \/ \E e \in Entities :
          /\ HasRoom(ListMaterial, 1, MaxListGeoms)
          /\ ~Contains(GeometriesOf(materials, ListMaterial), e)
          /\ add_geometry_to_material(e, ListMaterial)
    \/ \E olds \in SeqsUpTo(Entities, MaxOld),
          news \in SeqsUpTo(Entities, MaxNew), n \in MaterialNames :
          /\ HasRoom(n, Len(news), MaxListGeoms)
          /\ update_tracking_list(olds, news, n)

SpecList == Init /\ [][NextList]_vars

(***************************************************************************)
(* C1.  Mirror consistency: between operations, for every material the set *)
(* of entities in its in-process geometries equals the membership of its   *)
(* kernel group.                                                           *)
(* The code breaks it: an entity tracked twice is removed from the kernel  *)
(* group by the first match while one copy stays in geometries.            *)
(***************************************************************************)
C1_MirrorConsistency ==
    \A i \in 1..Len(materials) :
        Range(materials[i].geometries) = KernelMembers(groups, materials[i].name)

(***************************************************************************)
(* C2.  Material names are unique in every reachable state, and a          *)
(* make_material call with a registered name leaves materials unchanged    *)
(* (the record keeps its group_id and geometries).                         *)
(***************************************************************************)
C2_MaterialNamesUnique ==
    /\ [](\A i, j \in 1..Len(materials) :
             materials[i].name = materials[j].name => i = j)
    /\ [][\A n \in MaterialNames, g \in GroupIds :
             (make_material(n, g) /\ Contains(MaterialNamesOf(materials), n))
                => materials' = materials]_vars

\* C2's case: a record registered by make_material with its own group id
\* went through add_geometry_to_material's make_material call of the same
\* name (the kernel's id for the name differs) and kept its group_id
C2_Witness ==
    \E i \in 1..Len(materials) :
        /\ materials[i].geometries # <<>>
        /\ get_id_from_name(groups, materials[i].name) # 0
        /\ materials[i].group_id # get_id_from_name(groups, materials[i].name)
        /\ Len(materials) = 2

(***************************************************************************)
(* C9.  After update_tracking_list(old_instances, new_instances, m)        *)
(* returns, every entity of old_instances that was tracked in m and is not *)
(* in new_instances is absent from m's geometries and from m's kernel      *)
(* group, and every entity of new_instances is in both.                    *)
(* The code breaks it: removing while iterating skips the element that     *)
(* follows a removed one.                                                  *)
(***************************************************************************)
C9_UpdateListReplaces ==
    [][\A olds \in SeqsUpTo(Entities, MaxOld),
          news \in SeqsUpTo(Entities, MaxNew), n \in MaterialNames :
          ( /\ update_tracking_list(olds, news, n)
            /\ FirstNamed(materials, n) # 0
            /\ raised' = "" )
          => /\ \A e \in Range(olds) :
                   (Contains(GeometriesOf(materials, n), e)
                      /\ e \notin Range(news))
                   => /\ ~Contains(GeometriesOf(materials', n), e)
                      /\ e \notin KernelMembers(groups', n)
             /\ \A e \in Range(news) :
                   /\ Contains(GeometriesOf(materials', n), e)
                   /\ e \in KernelMembers(groups', n)]_vars

(***************************************************************************)
(* C10.  update_tracking_list never raises because of its old entities,    *)
(* also when old_instances is a superset of the tracked entities or names  *)
(* an entity more than once; an entity it does not name is removed from    *)
(* neither the geometries nor the kernel group.                            *)
(* The code breaks it: a second mention of a removed entity calls          *)
(* list.remove for a geometry that is gone, which raises ValueError.       *)
(***************************************************************************)
C10_UpdateListNeverRaises ==
    [][\A olds \in SeqsUpTo(Entities, MaxOld),
          news \in SeqsUpTo(Entities, MaxNew), n \in MaterialNames :
          update_tracking_list(olds, news, n)
          => /\ raised' = ""
             /\ \A x \in Entities \ Range(olds) :
                   /\ Count(GeometriesOf(materials', n), x)
                         >= Count(GeometriesOf(materials, n), x)
                   /\ x \in KernelMembers(groups, n)
                         => x \in KernelMembers(groups', n)]_vars

(***************************************************************************)
(* Specification of the pair enumeration: materials are registered one by  *)
(* one (the group id is the next kernel id) and pairs are enumerated.      *)
(***************************************************************************)
PairNames == {"a", "air", "b", "c", "d", "e"}

NextPairs ==
    \/ \E n \in PairNames :
          /\ Len(materials) < MaxPairMaterials
          /\ make_material(n, Len(materials) + 1)
    \/ sort_materials_into_pairs

SpecPairs == Init /\ [][NextPairs]_vars

(***************************************************************************)
(* Specification of the merge orchestration: entities are registered       *)
(* (each under one material) and merge_and_track_boundaries runs.          *)
(***************************************************************************)
\* the entity is tracked in no material
Untracked(e) ==
    \A i \in 1..Len(materials) : ~Contains(materials[i].geometries, e)

\* the entities a user passes to add_geometry_to_boundary
DirectEntities ==
    { GenericCubitInstance(1, "volume"), GenericCubitInstance(1, "surface") }

\* the boundary names a user passes: the tracked ones and one that is not
DirectNames == Range(MaterialNamesOf(boundaries)) \cup {"nonexistent"}

\* the material names the callers of the merge specification pass in
MergeNames == {"a", "air", "b"}

\* the steps of a running merge_and_track_boundaries call
MergeSteps ==
    \/ SelfMergeStep
    \/ PairMergeStep
    \/ QueryUnmergedStep
    \/ AirStep
    \/ FinishMerge

NextMerge ==
    \/ \E e \in MergeEntities, n \in MergeNames :
          /\ Untracked(e)
          /\ HasRoom(n, 1, MaxMergeGeoms)
          /\ add_geometry_to_material(e, n)
    \/ merge_and_track_boundaries
    \/ MergeSteps

SpecMerge == Init /\ [][NextMerge]_vars

(***************************************************************************)
(* Specification of the boundary operations: entities are registered,      *)
(* merge_and_track_boundaries runs once, and a user extends boundaries.    *)
(***************************************************************************)
NextBoundary ==
    \/ \E e \in MergeEntities, n \in MaterialNames :
          /\ runs = 0
          /\ Untracked(e)
          /\ HasRoom(n, 1, MaxBoundaryGeoms)
          /\ add_geometry_to_material(e, n)
    \/ runs = 0 /\ merge_and_track_boundaries
    \/ MergeSteps
    \/ \E e \in DirectEntities, n \in DirectNames :
          /\ direct_adds < MaxDirectAdds
          /\ add_geometry_to_boundary(e, n)
    \/ \E n \in DirectNames : get_boundary_ids(n)

SpecBoundary == Init /\ [][NextBoundary]_vars

(***************************************************************************)
(* C3.  For a tracker holding N distinct materials (N = 0..5),             *)
(* sort_materials_into_pairs returns exactly N*(N-1)/2 pairs: every pair   *)
(* (materials[i], materials[j]) with i < j exactly once, no self-pair, no  *)
(* pair in the other order and none twice.                                 *)
(***************************************************************************)
C3_PairsExact(pairs, n) ==
    /\ Len(pairs) = (n * (n - 1)) \div 2
    /\ \A i, j \in 1..n :
          Count(pairs, << i, j >>) = IF i < j THEN 1 ELSE 0
    /\ \A k \in 1..Len(pairs) :
          /\ pairs[k][1] \in 1..n /\ pairs[k][2] \in 1..n
          /\ pairs[k][1] # pairs[k][2]

C3_PairsCompleteExclusive ==
    [][sort_materials_into_pairs
          => C3_PairsExact(pair_list', Len(materials'))]_vars

\* C3's case: the pairs of five materials have been enumerated
C3_Witness ==
    /\ Len(materials) = 5
    /\ Len(pair_list) = 10
    /\ Count(pair_list, << 1, 5 >>) = 1

(***************************************************************************)
(* C4.  When the kernel merge of the groups of m1 and m2 produces a new    *)
(* group G, the merge step renames G to "<m1.name>_<m2.name>" and records  *)
(* a boundary of that name and group id G whose geometries are the         *)
(* surfaces the kernel reports for G, in the reported order;               *)
(* get_boundary_ids of that name then returns those ids in that order.     *)
(* The code breaks it when a boundary of that name is tracked already      *)
(* (see C8): the surfaces are appended to the older record.                *)
(***************************************************************************)
\* the materials (as positions) of the merge attempt the call stands at
C4_CurrentPair == IF pc = "self" THEN << idx, idx >> ELSE pair_list[idx]

C4_MergeTracksBoundary ==
    [][(pc \in {"self", "pair"} /\ Len(groups') > Len(groups))
          => LET G == Len(groups')
                 name == BoundaryName(materials[C4_CurrentPair[1]],
                                      materials[C4_CurrentPair[2]])
                 reported == get_group_surfaces(groups', G)
             IN  /\ groups'[G].name = name
                 /\ \E k \in 1..Len(boundaries') :
                       boundaries'[k] =
                          [name |-> name, group_id |-> G,
                           geometries |->
                              [i \in 1..Len(reported) |->
                                 GenericCubitInstance(reported[i], "surface")]]
                 /\ GetBoundaryIds(boundaries', name)
                       = [raised |-> "", ids |-> reported]]_vars

(***************************************************************************)
(* C5.  When the kernel merge of two materials' groups produces no new     *)
(* group, the merge attempt creates no boundary record, renames no group,  *)
(* raises no error and leaves materials and boundaries as they were.       *)
(***************************************************************************)
C5_NoGroupNoChange ==
    [][(pc \in {"self", "pair"} /\ Len(groups') = Len(groups))
          => /\ boundaries' = boundaries
             /\ materials' = materials
             /\ groups' = groups
             /\ raised' = ""]_vars

\* C5's case: the three merge attempts of a run over two materials that
\* each hold a volume are done, none produced a group, nothing is tracked
C5_Witness ==
    /\ pc = "query"
    /\ runs = 1
    /\ Len(materials) = 2
    /\ \A i \in 1..2 : \E g \in Range(materials[i].geometries) :
          VolumesOf(g) # {}
    /\ boundaries = <<>>
    /\ raised = ""

(***************************************************************************)
(* C6.  Ambient derivation: when merge_and_track_boundaries has done its   *)
(* ambient pass, for every material m the boundary "<m>_air" holds exactly *)
(* the surfaces of m that the kernel reported as unmerged, and no merged   *)
(* surface.                                                                *)
(* The code breaks it when "<m>_air" names another boundary too (see C8):  *)
(* with materials "a" and "air" the pair boundary "a_air" receives a's     *)
(* unmerged surfaces on top of the merged ones.                            *)
(***************************************************************************)
C6_CidsOf(geometries) == { g.cid : g \in Range(geometries) }

C6_AmbientDerivation ==
    pc = "finish" =>
       \A i \in 1..Len(materials) :
          LET k == FirstBoundary(boundaries, materials[i].name \o "_air")
          IN  /\ k # 0
              /\ C6_CidsOf(boundaries[k].geometries)
                    = Range(get_surface_ids(materials[i]))
                         \cap Range(all_unmerged_surfaces)
              /\ C6_CidsOf(boundaries[k].geometries) \cap merged = {}

(***************************************************************************)
(* C7.  In every reachable state, after any sequence of the tracker's      *)
(* public operations, every entity in every boundary's geometries is of    *)
(* kind surface.                                                           *)
(* The code breaks it: add_geometry_to_boundary appends any                *)
(* GenericCubitInstance.                                                   *)
(***************************************************************************)
C7_BoundariesHoldSurfaces ==
    \A k \in 1..Len(boundaries) :
       \A g \in Range(boundaries[k].geometries) : g.geometry_type = "surface"

(***************************************************************************)
(* C8.  Boundary names are unique in every reachable state, for any merge  *)
(* outcomes and any number of merge_and_track_boundaries calls.            *)
(* The code breaks it: every call appends a record "<m>_air" for every     *)
(* material, and the pair name of "a" and "air" is the ambient name of "a".*)
(***************************************************************************)
C8_BoundaryNamesUnique ==
    \A i, j \in 1..Len(boundaries) :
       boundaries[i].name = boundaries[j].name => i = j

(***************************************************************************)
(* C11.  After stop_tracking_in_material(e, m), e is in neither m's        *)
(* geometries nor m's kernel group; when e was not tracked in m (or m is   *)
(* not registered) the call changes neither the tracker nor the kernel and *)
(* does not raise; every other tracked entity of m stays tracked.          *)
(* The code breaks it for an entity tracked twice (see C17): removing      *)
(* while iterating skips the second copy, which stays in geometries.       *)
(***************************************************************************)
C11_StopTrackingRemoves ==
    [][\A e \in Entities, n \in MaterialNames :
          stop_tracking_in_material(e, n)
          => /\ raised' = ""
             /\ ~Contains(GeometriesOf(materials', n), e)
             /\ e \notin KernelMembers(groups', n)
             /\ ~Contains(GeometriesOf(materials, n), e)
                   => (materials' = materials /\ groups' = groups)
             /\ \A x \in Entities \ {e} :
                   /\ Count(GeometriesOf(materials', n), x)
                         = Count(GeometriesOf(materials, n), x)
                   /\ x \in KernelMembers(groups, n)
                         => x \in KernelMembers(groups', n)]_vars

(***************************************************************************)
(* C12.  For a name that names no tracked boundary, get_boundary_ids and   *)
(* add_geometry_to_boundary each fail with the not-found error (the code's *)
(* CubismError) and leave materials, boundaries and the kernel unchanged;  *)
(* for a tracked name add_geometry_to_boundary appends the entity to one   *)
(* boundary of that name and changes nothing else.                         *)
(***************************************************************************)
C12_Tracked(n) == \E k \in 1..Len(boundaries) : boundaries[k].name = n

C12_BoundaryNotFound ==
    [][/\ \A n \in DirectNames :
             (get_boundary_ids(n) /\ ~C12_Tracked(n))
             => /\ raised' = "CubismError"
                /\ UNCHANGED << materials, boundaries, groups, merged >>
       /\ \A e \in DirectEntities, n \in DirectNames :
             add_geometry_to_boundary(e, n)
             => /\ UNCHANGED << materials, groups, merged >>
                /\ IF C12_Tracked(n)
                   THEN /\ raised' = ""
                        /\ Len(boundaries') = Len(boundaries)
                        /\ \E k \in 1..Len(boundaries) :
                              /\ boundaries[k].name = n
                              /\ boundaries'[k] =
                                    [boundaries[k] EXCEPT
                                        !.geometries = Append(@, e)]
                              /\ \A j \in 1..Len(boundaries) :
                                    j # k => boundaries'[j] = boundaries[j]
                   ELSE /\ raised' = "CubismError"
                        /\ boundaries' = boundaries]_vars

\* C12's case: a user's add_geometry_to_boundary has put a volume in a
\* tracked boundary, and a later lookup of an untracked name has failed
C12_Witness ==
    /\ direct_adds = 1
    /\ raised = "CubismError"
    /\ \E k \in 1..Len(boundaries) :
          Contains(boundaries[k].geometries, GenericCubitInstance(1, "volume"))

(***************************************************************************)
(* Specification of the registration: add_geometry_to_material is called   *)
(* with entities and with values that are no GenericCubitInstance.         *)
(***************************************************************************)
\* the names the callers of the registration specification pass in
RegisterNames == MaterialNames \cup {UnequalName}

NextRegister ==
    \E x \in Entities \cup NonEntities, n \in RegisterNames :
       /\ HasRoom(n, 1, MaxGeoms)
       /\ add_geometry_to_material(x, n)

SpecRegister == Init /\ [][NextRegister]_vars

(***************************************************************************)
(* C13.  Material.add_geometry(x) appends x as the last element of         *)
(* geometries when x is a GenericCubitInstance and otherwise fails with    *)
(* the invalid-entity error (the code's CubismError) leaving geometries    *)
(* unchanged; a registration through add_geometry_to_material that fails   *)
(* this check leaves neither a new material record nor a kernel group      *)
(* member behind.                                                          *)
(* The code breaks the last part: the kernel command and make_material run *)
(* before the check.                                                       *)
(***************************************************************************)
C13_AddGeometryChecks ==
    [][\A x \in Entities \cup NonEntities, n \in MaterialNames :
          add_geometry_to_material(x, n)
          => LET k == FirstNamed(materials', n)
             IN  IF IsGenericCubitInstance(x)
                 THEN /\ raised' = ""
                      /\ k # 0
                      /\ materials'[k].geometries
                            = Append(GeometriesOf(materials, n), x)
                 ELSE /\ raised' # ""
                      /\ materials' = materials
                      /\ groups' = groups]_vars

(***************************************************************************)
(* C14.  One run of merge_and_track_boundaries over N uniquely named       *)
(* materials issues exactly N + N*(N-1)/2 kernel merge attempts: one for   *)
(* each material against itself, one for each unordered pair of distinct   *)
(* materials, and never two for the same ordered pair.                     *)
(***************************************************************************)
\* the merge commands among the logged commands
C14_Merges == SelectSeq(merge_log, LAMBDA c : c[1] = "merge")

C14_MergeAttemptsExact ==
    pc \in {"air", "finish"} =>
       LET n == Len(materials)
       IN  /\ Len(C14_Merges) = n + (n * (n - 1)) \div 2
           /\ \A i, j \in 1..n :
                 Count(C14_Merges, MergeCommand(i, j))
                    = IF i <= j THEN 1 ELSE 0
           /\ \A k \in 1..Len(C14_Merges) :
                 C14_Merges[k][2] \in 1..n /\ C14_Merges[k][3] \in 1..n

\* C14's case: a run over three materials has issued its six merge attempts
C14_Witness ==
    /\ pc = "finish"
    /\ Len(materials) = 3
    /\ Len(C14_Merges) = 6
    /\ Count(C14_Merges, MergeCommand(2, 3)) = 1

(***************************************************************************)
(* C15.  Within merge_and_track_boundaries every self-merge attempt        *)
(* happens before every pairwise merge attempt, and the kernel query for   *)
(* the unmerged surfaces happens after the last merge attempt, so the      *)
(* ambient pass sees the merge status produced by all the merges.          *)
(***************************************************************************)
C15_IsSelf(c) == c[1] = "merge" /\ c[2] = c[3]
C15_IsPair(c) == c[1] = "merge" /\ c[2] # c[3]

C15_SelfThenPairThenQuery ==
    /\ \A i, j \in 1..Len(merge_log) :
          /\ (C15_IsSelf(merge_log[i]) /\ C15_IsPair(merge_log[j])) => i < j
          /\ (merge_log[i][1] = "merge" /\ merge_log[j] = QueryCommand) => i < j
    /\ pc \in {"air", "finish"} =>
          /\ Count(merge_log, QueryCommand) = 1
          /\ Range(all_unmerged_surfaces) = AllSurfaces \ merged

\* C15's case: a run over two materials did self merges and a pair merge
\* that merged a surface, and has queried the unmerged surfaces after them
C15_Witness ==
    /\ pc = "air"
    /\ Len(merge_log) = 4
    /\ merge_log[3] = MergeCommand(1, 2)
    /\ merge_log[4] = QueryCommand
    /\ merged # {}
    /\ \E k \in 1..Len(boundaries) : boundaries[k].group_id = Len(groups) - 1

(***************************************************************************)
(* C16.  In every mutating tracker operation (add_geometry_to_material,    *)
(* update_tracking, update_tracking_list, stop_tracking_in_material) the   *)
(* kernel command is issued before the in-process geometries are changed.  *)
(* The code breaks it: only add_geometry_to_material issues the command    *)
(* first; the other three change the list and then tell the kernel.        *)
(* The property is stated for the operations of the tracking               *)
(* specification; update_tracking_list keeps the same order as             *)
(* stop_tracking_in_material (list change, then command).                  *)
(***************************************************************************)
\* every change of the list comes after the kernel command for it
C16_KernelFirst(steps) ==
    \A i \in 1..Len(steps) :
       /\ steps[i].op = "list_append"
             => \E j \in 1..(i-1) : steps[j] = CmdAdd(steps[i].name, steps[i].e)
       /\ steps[i].op = "list_remove"
             => \E j \in 1..(i-1) : steps[j] = CmdRemove(steps[i].name, steps[i].e)

\* the steps of a tracking call in the current state
C16_StepsOf(call) == ForNamedMaterials(materials, 1, call, <<>>).cmds

C16_KernelBeforeMirror ==
    [][/\ \A e \in Entities, n \in MaterialNames :
             add_geometry_to_material(e, n)
                => C16_KernelFirst(AddGeometrySteps(e, n))
       /\ \A old \in Entities, new \in Entities, n \in MaterialNames :
             update_tracking(old, new, n)
                => C16_KernelFirst(C16_StepsOf(CallUpdate(old, new, n)))
       /\ \A e \in Entities, n \in MaterialNames :
             stop_tracking_in_material(e, n)
                => C16_KernelFirst(C16_StepsOf(CallStop(e, n)))]_vars

(***************************************************************************)
(* C17.  No double tracking: after any sequence of tracker operations      *)
(* (add_geometry_to_material called twice with the same entity and         *)
(* material, update_tracking whose new entity is tracked already), no      *)
(* material's geometries holds the same (kind, id) entity more than once.  *)
(* The code breaks it: add_geometry_to_material and update_tracking append *)
(* without looking for the entity in the list.                             *)
(***************************************************************************)
C17_NoDoubleTracking ==
    \A i \in 1..Len(materials) :
       \A x \in Range(materials[i].geometries) :
          Count(materials[i].geometries, x) = 1

(***************************************************************************)
(* C18.  The ambient pass creates the boundary record "<material>_air" on  *)
(* first use, when the first unmerged surface of the material is appended: *)
(* a material none of whose surfaces is unmerged gets no record, and a     *)
(* material with an unmerged surface gets one.                             *)
(* The code breaks it: the record (and the kernel group) is created for    *)
(* every material before its surfaces are looked at.                       *)
(***************************************************************************)
\* the surfaces of the material the ambient loop stands at that are unmerged
C18_UnmergedOfCurrent ==
    Range(get_surface_ids(materials[idx])) \cap Range(all_unmerged_surfaces)

C18_AmbientOnFirstUse ==
    [][AirStep =>
          IF C18_UnmergedOfCurrent = {}
          THEN boundaries' = boundaries
          ELSE Len(boundaries') = Len(boundaries) + 1]_vars

(***************************************************************************)
(* C19.  For every GenericCubitInstance e and name n,                      *)
(* add_geometry_to_material(e, n) ends with a material named n registered, *)
(* e as the last element of its geometries and e a member of kernel group  *)
(* n; the not-found branch is not reached, and if it is reached the fault  *)
(* is raised to the caller and not returned as a value.                    *)
(* The code breaks it: line 64 returns the CubismError object; a name      *)
(* whose == is not reflexive reaches the branch and the call ends as if it *)
(* had succeeded, with e in the kernel group but in no geometries.         *)
(***************************************************************************)
\* the loop of lines 60-63 finds no material of the name after make_material
C19_NotFound(n) ==
    FirstNamed(MakeMaterialList(materials, n, 0), n) = 0

C19_RegistrationEnds ==
    [][\A e \in Entities, n \in RegisterNames :
          add_geometry_to_material(e, n)
          => IF C19_NotFound(n)
             THEN raised' = "CubismError"
             ELSE /\ raised' = ""
                  /\ \E k \in 1..Len(materials') :
                        /\ materials'[k].name = n
                        /\ materials'[k].geometries # <<>>
                        /\ materials'[k].geometries[Len(materials'[k].geometries)] = e
                  /\ e \in KernelMembers(groups', n)]_vars

(***************************************************************************)
(* Specification of update_tracking: entities are registered and tracked   *)
(* references are replaced.                                                *)
(***************************************************************************)
NextUpdate ==
    \/ \E e \in Entities, n \in MaterialNames :
          HasRoom(n, 1, MaxGeoms) /\ add_geometry_to_material(e, n)
    \/ \E old \in Entities, new \in Entities, n \in MaterialNames :
          update_tracking(old, new, n)

SpecUpdate == Init /\ [][NextUpdate]_vars

(***************************************************************************)
(* C20.  If old is tracked exactly once in material m, new differs from    *)
(* old and is not tracked in m, then after update_tracking(old, new, m)    *)
(* m's geometries and m's kernel group both contain new, neither contains  *)
(* old, every other entity tracked in m is tracked as often as before, and *)
(* the geometries of the other materials and the boundaries are unchanged. *)
(***************************************************************************)
C20_UpdateReplacesOne ==
    [][\A old \in Entities, new \in Entities, n \in MaterialNames :
          ( /\ new # old
            /\ Count(GeometriesOf(materials, n), old) = 1
            /\ ~Contains(GeometriesOf(materials, n), new)
            /\ update_tracking(old, new, n) )
          => /\ raised' = ""
             /\ Contains(GeometriesOf(materials', n), new)
             /\ new \in KernelMembers(groups', n)
             /\ ~Contains(GeometriesOf(materials', n), old)
             /\ old \notin KernelMembers(groups', n)
             /\ \A x \in Entities \ {old, new} :
                   /\ Count(GeometriesOf(materials', n), x)
                         = Count(GeometriesOf(materials, n), x)
                   /\ x \in KernelMembers(groups', n)
                         <=> x \in KernelMembers(groups, n)
             /\ \A m \in MaterialNames \ {n} :
                   /\ GeometriesOf(materials', m) = GeometriesOf(materials, m)
                   /\ KernelMembers(groups', m) = KernelMembers(groups, m)
             /\ Len(materials') = Len(materials)
             /\ boundaries' = boundaries]_vars

\* C20's case: material "a" tracked [volume 1, volume 2] and update_tracking
\* replaced volume 1 by surface 1, while material "air" tracks entities too
C20_Witness ==
    /\ GeometriesOf(materials, "a")
          = << GenericCubitInstance(2, "volume"),
               GenericCubitInstance(1, "surface") >>
    /\ KernelMembers(groups, "a")
          = { GenericCubitInstance(2, "volume"),
              GenericCubitInstance(1, "surface") }
    /\ GeometriesOf(materials, "air") # <<>>


(***************************************************************************)
(* MaterialsTracker: kernel-side organisation and sidesets.                *)
(***************************************************************************)
\* cubit.get_last_id("group"): the id of the group created last
get_last_id(gs) == Len(gs)

\* 'group "<name>" add group <group_id>' for every record of a list, in
\* list order
RECURSIVE GroupAddGroups(_, _, _)
GroupAddGroups(gs, name, records) ==
    IF records = <<>> THEN gs
    ELSE GroupAddGroups(
            GroupAdd(gs, name,
                     GenericCubitInstance(Head(records).group_id, "group")),
            name, Tail(records))

\* cubit.get_group_groups(id): ids of the member groups, ascending
get_group_groups(gs, id) ==
    Ascending({ e.cid : e \in { x \in MembersOfId(gs, id) :
                                   x.geometry_type = "group" } })

\* lines 190-192: delete every listed group that holds no surface
RECURSIVE DeleteEmptyGroups(_, _)
DeleteEmptyGroups(gs, ids) ==
    IF ids = <<>> THEN gs
    ELSE DeleteEmptyGroups(
            IF get_group_surfaces(gs, Head(ids)) = <<>>
            THEN GroupDelete(gs, Head(ids)) ELSE gs,
            Tail(ids))

\* organise_into_groups: the lists of the tracker are not touched
organise_into_groups ==
    /\ pc = "idle"
    /\ LET gs1 == GroupCreate(groups, "materials")
           gs2 == GroupAddGroups(gs1, "materials", materials)
           gs3 == GroupCreate(gs2, "boundaries")
           boundaries_group_id == get_last_id(gs3)
           gs4 == GroupAddGroups(gs3, "boundaries", boundaries)
       IN  groups' = DeleteEmptyGroups(gs4,
                        get_group_groups(gs4, boundaries_group_id))
    /\ raised' = ""
    /\ UNCHANGED << materials, boundaries, merged, ret, mergeLocals >>

\* 'sideset <id> add surface <ids>': creates the sideset when there is none
SidesetAdd(ss, id, surfaces) ==
    IF \E s \in ss : s.id = id
    THEN { IF s.id = id THEN [s EXCEPT !.surfaces = @ \cup surfaces] ELSE s :
           s \in ss }
    ELSE ss \cup { [id |-> id, name |-> "", surfaces |-> surfaces] }

\* 'sideset <id> name "<name>"'
SidesetName(ss, id, name) ==
    { IF s.id = id THEN [s EXCEPT !.name = name] ELSE s : s \in ss }

\* lines 263-266: the loop over the boundaries
RECURSIVE SidesetsLoop(_, _)
SidesetsLoop(ss, bs) ==
    IF bs = <<>> THEN ss
    ELSE LET boundary == Head(bs)
         IN  SidesetsLoop(
                SidesetName(
                   SidesetAdd(ss, boundary.group_id,
                              Range(get_surface_ids(boundary))),
                   boundary.group_id, boundary.name),
                Tail(bs))

\* add_boundaries_to_sidesets
add_boundaries_to_sidesets ==
    /\ pc = "idle"
    /\ sidesets' = SidesetsLoop(sidesets, boundaries)
    /\ raised' = ""
    /\ UNCHANGED << materials, boundaries, groups, merged, ret, pc, pair_list,
                    idx, all_unmerged_surfaces, unmerged_group_id, counters,
                    merge_log, trackers, filler >>

(***************************************************************************)
(* Specification of the end of a build: entities are registered,           *)
(* merge_and_track_boundaries runs once, organise_into_groups is called    *)
(* once and add_boundaries_to_sidesets fills the sidesets once.            *)
(***************************************************************************)
\* the material names the callers of this specification pass in
OrganiseNames == {"a", "b"}

\* organise_into_groups has been called: its umbrella group is there
Organised == get_id_from_name(groups, "boundaries") # 0

NextOrganise ==
    \/ \E e \in MergeEntities, n \in OrganiseNames :
          /\ runs = 0
          /\ Untracked(e)
          /\ HasRoom(n, 1, MaxMergeGeoms)
          /\ add_geometry_to_material(e, n)
    \/ runs = 0 /\ merge_and_track_boundaries
    \/ MergeSteps
    \/ ~Organised /\ organise_into_groups
    \/ sidesets = {} /\ add_boundaries_to_sidesets

SpecOrganise == Init /\ [][NextOrganise]_vars

(***************************************************************************)
(* C21.  After organise_into_groups every boundary record of the tracker   *)
(* has a group_id that names a live kernel group, and an                   *)
(* add_boundaries_to_sidesets that follows creates sidesets only under ids *)
(* of live kernel groups that hold a surface.                              *)
(* The code breaks it: organise_into_groups deletes the empty kernel       *)
(* groups and leaves their records in boundaries.                          *)
(***************************************************************************)
\* the group of that id exists in the kernel
C21_Live(gs, id) == id \in 1..Len(gs) /\ gs[id].live

C21_BoundaryGroupsLive ==
    [][/\ organise_into_groups =>
             \A i \in 1..Len(boundaries') :
                C21_Live(groups', boundaries'[i].group_id)
       /\ (Organised /\ add_boundaries_to_sidesets) =>
             \A s \in sidesets' :
                /\ C21_Live(groups', s.id)
                /\ get_group_surfaces(groups', s.id) # <<>>]_vars


(***************************************************************************)
(* MaterialsTracker: instances.  materials and boundaries are attributes   *)
(* of the class; an instance reads an attribute from its own __dict__ and, *)
(* when it has none of that name, from the class.                          *)
(***************************************************************************)
MaxTrackers == 2

\* lines 32-33: the attributes of the class
ClassAttribute(name) == IF name = "materials" THEN materials ELSE boundaries

\* self.<name> read through the instance at position t
getattr(t, name) ==
    IF name \in DOMAIN trackers[t] THEN trackers[t][name]
    ELSE ClassAttribute(name)

\* MaterialsTracker(): the class has no __init__, the new instance owns
\* no attribute
MaterialsTracker ==
    /\ pc = "idle"
    /\ Len(trackers) < MaxTrackers
    /\ trackers' = Append(trackers, NoAttributes)
    /\ raised' = ""
    /\ UNCHANGED << materials, boundaries, groups, merged, ret, pc, pair_list,
                    idx, all_unmerged_surfaces, unmerged_group_id, counters,
                    merge_log, sidesets, filler >>

(***************************************************************************)
(* Specification of several trackers: instances are constructed, entities  *)
(* are registered and merge_and_track_boundaries runs once, each through   *)
(* any of the instances.                                                   *)
(***************************************************************************)
NextInstances ==
    \/ MaterialsTracker
    \/ \E n \in MaterialNames, g \in GroupIds : make_material(n, g)
    \/ \E e \in MergeEntities, n \in MaterialNames :
          /\ runs = 0
          /\ Untracked(e)
          /\ HasRoom(n, 1, MaxBoundaryGeoms)
          /\ add_geometry_to_material(e, n)
    \/ runs = 0 /\ merge_and_track_boundaries
    \/ MergeSteps

SpecInstances == Init /\ [][NextInstances]_vars

(***************************************************************************)
(* C22.  Tracker instances are isolated: a newly constructed               *)
(* MaterialsTracker sees empty materials and boundaries whatever was done  *)
(* through other instances before, and an operation called on one instance *)
(* leaves the materials and boundaries seen through every other instance   *)
(* unchanged.                                                              *)
(* The code breaks it: the two lists are attributes of the class, which    *)
(* every instance reads.                                                   *)
(***************************************************************************)
\* what the instance at position t sees
C22_Seen(t) == << getattr(t, "materials"), getattr(t, "boundaries") >>

C22_InstancesIsolated ==
    [][/\ MaterialsTracker =>
             \A t \in { Len(trackers') } :
                C22_Seen(t)' = << << >>, << >> >>
       /\ (Len(trackers') = Len(trackers) /\ Len(trackers) >= 2) =>
             \E s \in 1..Len(trackers) :
                \A t \in 1..Len(trackers) \ {s} : C22_Seen(t)' = C22_Seen(t)
      ]_vars


(***************************************************************************)
(* Specification of a whole tracker run: registration, the three tracking  *)
(* operations, one merge_and_track_boundaries call and after it one        *)
(* organise_into_groups call.                                              *)
(***************************************************************************)
\* the entities the callers of this specification pass in
RecordEntities ==
    { GenericCubitInstance(1, "volume"), GenericCubitInstance(2, "volume") }

\* the new_instances lists they pass: none or one entity
RecordNews == { << >> } \cup { << e >> : e \in RecordEntities }

NextRecords ==
    \/ \E e \in RecordEntities, n \in MaterialNames :
          /\ runs = 0
          /\ HasRoom(n, 1, MaxBoundaryGeoms)
          /\ add_geometry_to_material(e, n)
    \/ \E old \in RecordEntities, new \in RecordEntities, n \in MaterialNames :
          update_tracking(old, new, n)
    \/ \E olds \in SeqsUpTo(RecordEntities, MaxBoundaryGeoms),
          news \in RecordNews, n \in MaterialNames :
          /\ HasRoom(n, Len(news), MaxBoundaryGeoms)
          /\ update_tracking_list(olds, news, n)
    \/ \E e \in RecordEntities, n \in MaterialNames :
          stop_tracking_in_material(e, n)
    \/ runs = 0 /\ merge_and_track_boundaries
    \/ MergeSteps
    \/ runs > 0 /\ ~Organised /\ organise_into_groups

SpecRecords == Init /\ [][NextRecords]_vars

(***************************************************************************)
(* C23.  Records are never deleted: every step of a tracker run keeps each *)
(* record of materials and of boundaries in its place with its name and    *)
(* its group_id; update_tracking, update_tracking_list and                 *)
(* stop_tracking_in_material add no record either and leave boundaries     *)
(* alone: they change geometries only, also when a material is left with   *)
(* no geometries.                                                          *)
(***************************************************************************)
\* every record of the list before is at its place in the list after
C23_Kept(before, after) ==
    /\ Len(after) >= Len(before)
    /\ \A i \in 1..Len(before) :
          /\ after[i].name = before[i].name
          /\ after[i].group_id = before[i].group_id

\* the step is a call of one of the three tracking operations
C23_TrackingStep ==
    \/ \E old \in RecordEntities, new \in RecordEntities, n \in MaterialNames :
          update_tracking(old, new, n)
    \/ \E e \in RecordEntities, n \in MaterialNames :
          stop_tracking_in_material(e, n)
    \/ \E olds \in SeqsUpTo(RecordEntities, MaxBoundaryGeoms),
          news \in RecordNews, n \in MaterialNames :
          update_tracking_list(olds, news, n)

C23_RecordsNeverDeleted ==
    [][/\ C23_Kept(materials, materials')
       /\ C23_Kept(boundaries, boundaries')
       /\ \/ Len(materials') = Len(materials) /\ boundaries' = boundaries
          \/ ~C23_TrackingStep]_vars

\* a material registered through the kernel, which has its group, is left
\* with no geometries, boundaries are tracked and the empty kernel groups
\* have been deleted
C23_Witness ==
    /\ \E i \in 1..Len(materials) :
          /\ materials[i].geometries = <<>>
          /\ get_id_from_name(groups, materials[i].name) # 0
    /\ boundaries # <<>>
    /\ Organised


(***************************************************************************)
(* blobmaker.parsing: ParameterFiller.                                     *)
(***************************************************************************)
\* d.keys() in insertion order
Keys(d) == [i \in 1..Len(d) |-> d[i][1]]

\* key in d.keys()
HasKey(d, key) == Contains(Keys(d), key)

\* d[key]
GetItem(d, key) == d[IndexOf(Keys(d), key)][2]

\* d[key] = value: a new key goes to the end, a known key keeps its place
SetItem(d, key, value) ==
    IF HasKey(d, key)
    THEN [d EXCEPT ![IndexOf(Keys(d), key)] = << key, value >>]
    ELSE Append(d, << key, value >>)

\* the dict reached from the top-level dict through the keys of path: the
\* object the local name design_tree of a nested __fill_params call refers to
RECURSIVE GetPath(_, _)
GetPath(top, path) ==
    IF path = << >> THEN top
    ELSE GetPath(GetItem(top, Head(path)).value, Tail(path))

\* str.lower() on the class names that occur
lower(s) ==
    IF s = "Pin" THEN "pin" ELSE IF s = "Pebble" THEN "pebble" ELSE s

\* blobmaker.default_params.DEFAULTS: the default configuration of each class
DEFAULTS ==
    << << << "class", Str("pin") >>,
          << "material", Str("steel") >>,
          << "geometry", Dict(<< << "length", Str("10") >>,
                                 << "radius", Str("2") >> >>) >> >>,
       << << "class", Str("Pebble") >>,
          << "geometry", Dict(<< << "shell", Dict(<< << "thickness",
                                                       Str("1") >> >>) >>,
                                 << "width", Str("5") >> >>) >> >> >>

\* line 91 and line 100: the message that frames the log of a class
ClassMessage(log, design_tree, what) ==
    IF HasKey(design_tree, "class")
    THEN Append(log, << what, GetItem(design_tree, "class").value >>)
    ELSE log

\* __setup_tree on a tree that has no "components": the dict itself
setup_tree(st, path) ==
    [st EXCEPT !.log = ClassMessage(st.log, GetPath(st.top, path), "logging")]

\* __cleanup_logs: one message for each key that the config has not; they
\* come in the iteration order of a set, so the model keeps them as one
\* entry holding the set
cleanup_logs(st, path, config) ==
    LET design_tree == GetPath(st.top, path)
        unknown == Range(Keys(design_tree)) \ Range(Keys(config))
        log1 == IF unknown = {} THEN st.log
                ELSE Append(st.log, << "not in default config", unknown >>)
    IN  [st EXCEPT !.log = ClassMessage(log1, design_tree, "finished")]

\* __fill_params: st holds self.design_tree (top), self.log and the
\* exception; path leads from self.design_tree to the dict the call was
\* given, i the position in config.items()
RECURSIVE FillLoop(_, _, _, _)
FillLoop(st, path, config, i) ==
    IF st.raised # "" THEN st
    ELSE IF i > Len(config) THEN cleanup_logs(st, path, config)
    ELSE LET key == config[i][1]
             default_value == config[i][2]
             design_tree == GetPath(st.top, path)
         IN  IF HasKey(design_tree, key)
             THEN IF default_value.type = "dict"
                  THEN IF GetItem(design_tree, key).type # "dict"
                       THEN [st EXCEPT !.raised = "AttributeError"]
                       ELSE FillLoop(
                               FillLoop(setup_tree(st, path \o << key >>),
                                        path \o << key >>,
                                        default_value.value, 1),
                               path, config, i + 1)
                  ELSE FillLoop(
                          [st EXCEPT !.log = Append(@, << "set", key >>)],
                          path, config, i + 1)
             ELSE FillLoop(
                     [st EXCEPT
                        !.top = SetItem(@, key, default_value),
                        !.log = Append(@, << "added default", key >>)],
                     path, config, i + 1)

fill_params(st, config) == FillLoop(setup_tree(st, << >>), << >>, config, 1)

\* __prereq_check: the exception it raises, "" when it returns
prereq_check(design_tree) ==
    IF ~HasKey(design_tree, "class") THEN "CubismError"
    ELSE IF GetItem(design_tree, "class").type # "str" THEN "CubismError"
    ELSE ""

\* __get_config from position i of DEFAULTS on: the first default of the
\* class, False when there is none
RECURSIVE get_config(_, _)
get_config(design_tree, i) ==
    IF i > Len(DEFAULTS) THEN False
    ELSE IF lower(GetItem(DEFAULTS[i], "class").value)
               = lower(GetItem(design_tree, "class").value)
    THEN Dict(DEFAULTS[i])
    ELSE get_config(design_tree, i + 1)

\* the state of the tracker and of the kernel, which the filler leaves alone
trackerVars ==
    << materials, boundaries, groups, merged, raised, ret, pc, pair_list, idx,
       all_unmerged_surfaces, unmerged_group_id, counters, merge_log,
       sidesets, trackers >>

\* ParameterFiller()
ParameterFiller ==
    /\ filler' = NewParameterFiller
    /\ UNCHANGED trackerVars

\* process_design_tree(design_tree)
process_design_tree(design_tree) ==
    /\ LET f1 == [filler EXCEPT !.design_tree = design_tree,
                                !.arg = design_tree,
                                !.returned = None,
                                !.raised = prereq_check(design_tree)]
           config == get_config(design_tree, 1)
           log1 == IF config.type = "bool"
                   THEN Append(filler.log,
                               << "default configuration not found",
                                  GetItem(design_tree, "class").value >>)
                   ELSE filler.log
           st == IF config.type = "dict" /\ config.value # << >>
                 THEN fill_params([top |-> design_tree, log |-> log1,
                                   raised |-> ""], config.value)
                 ELSE [top |-> design_tree, log |-> log1, raised |-> ""]
       IN  filler' =
              IF f1.raised # "" THEN f1
              ELSE [f1 EXCEPT !.config = config,
                              !.log = st.log,
                              !.design_tree = st.top,
                              !.raised = st.raised,
                              !.returned = IF st.raised = "" THEN Dict(st.top)
                                           ELSE None]
    /\ UNCHANGED trackerVars

(***************************************************************************)
(* Specification of the parameter filler: a filler is constructed and      *)
(* process_design_tree is called on it with a design tree.                 *)
(***************************************************************************)
\* the design trees of the keys of a default configuration: a key is left
\* out, holds the default or holds a value of the caller; a dict holds such
\* a tree of the nested configuration
RECURSIVE TreesOf(_)
TreesOf(config) ==
    IF config = << >> THEN { << >> }
    ELSE LET key == config[1][1]
             default_value == config[1][2]
             rest == TreesOf(Tail(config))
             values == IF default_value.type = "dict"
                       THEN { Dict(t) : t \in TreesOf(default_value.value) }
                       ELSE { default_value, Str("given") }
         IN  rest \cup { << << key, v >> >> \o r : v \in values, r \in rest }

\* the "class" item of a design tree: none, a class name in either case, a
\* class without defaults, a class that is no string
ClassItems ==
    { << >> } \cup
    { << << "class", v >> >> :
         v \in { Str("pin"), Str("Pin"), Str("pebble"), Str("Pebble"),
                 Str("unknown"), Integer("1") } }

\* a key that no default configuration has
ExtraItems == { << >>, << << "extra", Str("given") >> >> }

\* the design trees the callers pass in
DesignTrees ==
    { c \o t \o x :
         c \in ClassItems,
         t \in UNION { TreesOf(Tail(DEFAULTS[i])) : i \in 1..Len(DEFAULTS) },
         x \in ExtraItems }

NextFill ==
    \/ ParameterFiller
    \/ \E design_tree \in DesignTrees :
          filler = NewParameterFiller /\ process_design_tree(design_tree)

SpecFill == Init /\ [][NextFill]_vars

(***************************************************************************)
(* C24.  process_design_tree fills defaults at the level they belong to:   *)
(* when the call returns a tree for a class that has a default             *)
(* configuration, every key of the configuration, at any depth, that the   *)
(* given tree lacks in the corresponding dict is in that dict of the       *)
(* returned tree with the default value, and the top level of the returned *)
(* tree has no key beyond those given and those of the top level of the    *)
(* configuration.                                                          *)
(* The code breaks it: line 84 writes every missing key into               *)
(* self.design_tree, the top-level tree.                                   *)
(***************************************************************************)
C24_SameValue(a, b) == a.type = b.type /\ a.value = b.value

\* the keys of config missing in given are in result with their defaults,
\* in the nested dicts as well
RECURSIVE C24_FilledAt(_, _, _)
C24_FilledAt(given, result, config) ==
    \A i \in 1..Len(config) :
       LET key == config[i][1]
           default_value == config[i][2]
       IN  IF ~HasKey(given, key)
           THEN /\ HasKey(result, key)
                /\ C24_SameValue(GetItem(result, key), default_value)
           ELSE (default_value.type = "dict") =>
                   /\ HasKey(result, key)
                   /\ GetItem(result, key).type = "dict"
                   /\ C24_FilledAt(GetItem(given, key).value,
                                   GetItem(result, key).value,
                                   default_value.value)

C24_DefaultsFilledInPlace ==
    (filler.returned.type = "dict" /\ filler.config.type = "dict"
                                  /\ filler.config.value # << >>) =>
       /\ C24_FilledAt(filler.arg, filler.returned.value, filler.config.value)
       /\ Range(Keys(filler.returned.value))
             \subseteq Range(Keys(filler.arg))
                        \cup Range(Keys(filler.config.value))
====
